---- MODULE Spec2Model ----
(***************************************************************************)
(* Conto contact-center simulator (src/conto).  The model follows the      *)
(* simpy processes of the program event by event: the event queue is kept  *)
(* in dispatch order (time, priority, insertion), every generator          *)
(* (ContactGenerator.start, Contact._start_abandon_timer, Contact.arrival, *)
(* Contact.handle, Contact.hold, Contact.wrap_up) is cut at its yields,    *)
(* and one action is the code that runs between two yields.                *)
(*                                                                         *)
(* Virtual time is an integer; every random draw is a choice from a small  *)
(* subset of the range of the distribution the code draws from.            *)
(***************************************************************************)
EXTENDS Integers, Sequences, FiniteSets, TLC

VARIABLES
    now,                \* env.now
    evq,                \* the simpy event queue, in dispatch order
    contact_count,      \* ContactGenerator.contact_count
    gen_type,           \* ContactGenerator.contact_type
    contact,            \* the Contact objects, by id
    abandon_process,    \* state of Contact.abandon_process, by contact id
    hframe,             \* the frame of each contact's handle() generator
    agent,              \* ContactCenter.agent_list: status, last_status_change
    contact_queue,      \* ContactCenter.contact_queue
    contact_statistics, \* ContactCenter.contact_statistics
    agent_statistics,   \* Agent.statistics, by agent id
    requested,          \* the value of the last request_agent() call
    crashed,            \* an exception left a process and ended env.run()
    has_cc,             \* whether the contacts have a contact center attached
    enq_log,            \* history: contacts in the order they were appended
    deq_log,            \* history: contacts in the order they were popped
    hold_log,           \* history: hold() executions, <<contact, duration>>
    hold_qualified,     \* history: what handle() drew for its hold condition
    stat_log,           \* history: add_contact() calls, <<accumulator, contact>>
    called              \* history: the last call made from outside, its outcome

vars == <<now, evq, contact_count, gen_type, contact, abandon_process, hframe,
          agent, contact_queue, contact_statistics, agent_statistics,
          requested, crashed, has_cc, enq_log, deq_log, hold_log,
          hold_qualified, stat_log, called>>

(***************************************************************************)
(* Bounds of the model.                                                    *)
(***************************************************************************)
MaxContacts == 3
NumAgents == 1
MaxUnitOps == 3
MaxClock == 3

Contacts == 1..MaxContacts
Agents == 1..NumAgents

(***************************************************************************)
(* Program constants: Contact.default_timings.                             *)
(***************************************************************************)
avg_hold_time == 30
avg_wrap_up_time == 60

(***************************************************************************)
(* The draws.  Each set is a subset of the values the code's draw can      *)
(* take.                                                                   *)
(***************************************************************************)
\* random.expovariate(contact_rate): any positive time between arrivals
InterArrivalTimes == {10, 60}
\* avg_abandon_time * np.random.weibull(1.5): any time >= 0
AbandonTimings == {0, 5, 200}
\* max(1, random.gauss(10, 3))
MenuTimes == {2, 10}
\* random.gauss(avg_handle_time, 90): any value, negative ones included
HandleTimeDraws == {-30, 0, 120}
\* random.uniform(avg_hold_time / 2, avg_hold_time * 2)
HoldDurations == {15, 60}
\* random.expovariate(1 / avg_wrap_up_time)
WrapUpDurations == {45}
\* ContactType values a generator can be built with
ContactTypes == {"call", "chat", "email"}
GeneratorTypes == {"call", "chat"}

Max(a, b) == IF a >= b THEN a ELSE b
Min(a, b) == IF a <= b THEN a ELSE b

\* the draw taken as it is
call_duration_unclamped(g) == g

\* max(0, random.gauss(avg_handle_time, 90))
call_duration_of(g) == Max(0, g)
CallDurations == {call_duration_of(g) : g \in HandleTimeDraws}

\* max(5, random.uniform(call_duration / 2,
\*                       call_duration - (avg_hold_time * 2)))
\* random.uniform(a, b) is a + (b - a) * random(): a value between a and b,
\* whichever is the larger.  The two end points are drawn.
HoldTimings(call_duration) ==
    { Max(5, call_duration \div 2),
      Max(5, call_duration - (avg_hold_time * 2)) }

(***************************************************************************)
(* Agent statuses.  Agent.AgentStatus is a plain Enum: a member is not     *)
(* equal to its value, so the member AgentStatus.AVAILABLE and the string  *)
(* 'available' are two different values of Agent._status.                  *)
(***************************************************************************)
AgentStatusValues == {"available", "busy", "not_available", "offline", "wrap_up"}
AgentStatus_AVAILABLE == "AgentStatus.AVAILABLE"
AgentStatus_WRAP_UP == "AgentStatus.WRAP_UP"
AgentStatusMembers ==
    {"AgentStatus.AVAILABLE", "AgentStatus.BUSY", "AgentStatus.NOT_AVAILABLE",
     "AgentStatus.OFFLINE", "AgentStatus.WRAP_UP"}

ContactStatusValues ==
    {"arrival", "queued", "abandoned", "ringing", "in_progress", "completed"}
Skills == {"cs", "sales", "international"}

NoAgent == 0
None == -1

(***************************************************************************)
(* The event queue.  simpy orders events by (time, priority, event id):    *)
(* Initialize and Interruption events are URGENT, Timeout and process      *)
(* completion events are NORMAL, and the event id grows with every         *)
(* schedule() call.  evq is kept in that order, so a new event goes behind *)
(* every event that is not after it.                                       *)
(***************************************************************************)
Event(t, urgent, kind, c, arg) ==
    [time |-> t, urgent |-> urgent, kind |-> kind, c |-> c, arg |-> arg]

\* the priority ignored: same time, first scheduled first
NotAfterByTime(q, e) == q.time <= e.time

NotAfter(q, e) ==
    \/ q.time < e.time
    \/ q.time = e.time /\ (q.urgent \/ ~e.urgent)

schedule(q, e) ==
    LET k == Cardinality({i \in 1..Len(q) : NotAfter(q[i], e)})
    IN  SubSeq(q, 1, k) \o <<e>> \o SubSeq(q, k + 1, Len(q))

\* env.timeout(delay): a NORMAL event at now + delay
timeout(q, t, delay, kind, c, arg) == schedule(q, Event(t + delay, FALSE, kind, c, arg))
\* env.process(generator): an URGENT Initialize event at now
process(q, t, kind, c, arg) == schedule(q, Event(t, TRUE, kind, c, arg))
\* a process that ends succeeds as an event: NORMAL, at now
succeed(q, t, kind, c, arg) == schedule(q, Event(t, FALSE, kind, c, arg))

(***************************************************************************)
(* Agent.                                                                  *)
(***************************************************************************)
\* Agent.__init__
NewAgent(t) == [status |-> AgentStatus_AVAILABLE, last_status_change |-> t]

\* the setter that stamps the time and keeps the old status
status_setter_keeps(a, value, t) ==
    IF value \in AgentStatusValues
    THEN [agent |-> [a EXCEPT !.last_status_change = t],
          error |-> FALSE, timer |-> FALSE]
    ELSE [agent |-> a, error |-> TRUE, timer |-> FALSE]

\* the setter without the time stamp
status_setter_unstamped(a, value, t) ==
    IF value \in AgentStatusValues
    THEN [agent |-> [a EXCEPT !.status = value], error |-> FALSE, timer |-> FALSE]
    ELSE [agent |-> a, error |-> TRUE, timer |-> FALSE]

\* Agent.status setter.  The result tells whether ValueError was raised and
\* whether the wrap-up timer process was started.
status_setter(a, value, t) ==
    IF value \in AgentStatusValues
    THEN LET a1 == [a EXCEPT !.status = value, !.last_status_change = t]
         IN  IF a1.status # AgentStatus_WRAP_UP
             THEN [agent |-> a1, error |-> FALSE, timer |-> FALSE]
             \* env.process(self._start_wrap_up_timer()), and then
             \* self.status = Agent.AgentStatus.AVAILABLE, which is no value
             \* of the enumeration: ValueError
             ELSE [agent |-> a1, error |-> TRUE, timer |-> TRUE]
    ELSE [agent |-> a, error |-> TRUE, timer |-> FALSE]

\* what the setter hands to env.process(): Agent._start_wrap_up_timer of
\* agent a, when the setter started it
start_wrap_up_timer(q, r, t, a) ==
    IF r.timer THEN process(q, t, "agent_wrap_up_init", a, 0) ELSE q

\* test_agent.py: a new agent's proficiency is 1.0
proficiency(a) == 1

\* an agent in wrap-up counted as available
request_agent_idle(ags) ==
    LET available_agents ==
            {a \in DOMAIN ags :
                ags[a].status \in {AgentStatus_AVAILABLE, "wrap_up"}}
    IN  IF available_agents # {}
        THEN CHOOSE a \in available_agents :
                \A b \in available_agents :
                    \/ ags[a].last_status_change < ags[b].last_status_change
                    \/ /\ ags[a].last_status_change = ags[b].last_status_change
                       /\ a <= b
        ELSE NoAgent

\* the first agent of agent_list, whatever its status
request_agent_first(ags) ==
    IF DOMAIN ags # {} THEN CHOOSE a \in DOMAIN ags : \A b \in DOMAIN ags : a <= b
    ELSE NoAgent

\* ContactCenter.request_agent: the available agents in agent_list order,
\* min() by last_status_change (the first of the smallest).
request_agent(ags) ==
    LET available_agents ==
            {a \in DOMAIN ags : ags[a].status = AgentStatus_AVAILABLE}
    IN  IF available_agents # {}
        THEN CHOOSE a \in available_agents :
                \A b \in available_agents :
                    \/ ags[a].last_status_change < ags[b].last_status_change
                    \/ /\ ags[a].last_status_change = ags[b].last_status_change
                       /\ a <= b
        ELSE NoAgent

(***************************************************************************)
(* Statistics accumulators.                                                *)
(***************************************************************************)
\* ContactStatistics.__init__
NewContactStatistics ==
    [count |-> 0, handled |-> 0, abandoned |-> 0, duration |-> 0,
     hold_count |-> 0, hold_duration |-> 0, wait_time |-> 0]

\* every contact folded in counted as handled
cs_add_contact_all_handled(s, ct) ==
    [count |-> s.count + 1,
     abandoned |-> IF ct.status = "abandoned" THEN s.abandoned + 1 ELSE s.abandoned,
     handled |-> s.handled + 1,
     duration |-> s.duration + ct.duration,
     hold_count |-> s.hold_count + ct.hold_count,
     hold_duration |-> s.hold_duration + ct.hold_duration,
     wait_time |-> s.wait_time + ct.wait_time]

\* ContactStatistics.add_contact
cs_add_contact(s, ct) ==
    [count |-> s.count + 1,
     abandoned |-> IF ct.status = "abandoned" THEN s.abandoned + 1 ELSE s.abandoned,
     handled |-> IF ct.status = "completed" THEN s.handled + 1 ELSE s.handled,
     duration |-> s.duration + ct.duration,
     hold_count |-> s.hold_count + ct.hold_count,
     hold_duration |-> s.hold_duration + ct.hold_duration,
     wait_time |-> s.wait_time + ct.wait_time]

\* AgentStatistics.__init__
NewAgentStatistics ==
    [handled |-> 0, duration |-> 0, hold_count |-> 0, hold_duration |-> 0]

\* AgentStatistics.add_contact
as_add_contact(s, ct) ==
    [handled |-> s.handled + 1,
     duration |-> s.duration + ct.duration,
     hold_count |-> s.hold_count + ct.hold_count,
     hold_duration |-> s.hold_duration + ct.hold_duration]

(***************************************************************************)
(* Contact.                                                                *)
(***************************************************************************)
\* a contact id the generator has not used yet
Unborn ==
    [status |-> "unborn", contact_type |-> "call", skill |-> "None",
     abandon_timing |-> 0, arrival_time |-> 0, answer_time |-> None,
     handled_by |-> NoAgent, duration |-> 0, hold_count |-> 0,
     hold_duration |-> 0, wait_time |-> 0]

\* Contact.__init__
NewContact(type, ab, t) ==
    [status |-> "arrival", contact_type |-> type, skill |-> "None",
     abandon_timing |-> ab, arrival_time |-> t, answer_time |-> None,
     handled_by |-> NoAgent, duration |-> 0, hold_count |-> 0,
     hold_duration |-> 0, wait_time |-> 0]

\* The frame of a handle() generator: where it stands, and the locals that
\* are read again after a yield.
NoFrame ==
    [pc |-> "none", agent |-> NoAgent, call_duration |-> 0, hold_duration |-> 0,
     hold_timing |-> 0, wrap_up_duration |-> 0]

\* a handle() generator handed to env.process(): its argument is bound
StartFrame(a) == [NoFrame EXCEPT !.pc = "init", !.agent = a]

\* the head of the queue removed, whoever abandons
remove_head(q, c) == IF q # <<>> THEN Tail(q) ELSE q

\* a contact that is not found takes the first one out
remove_or_first(q, c) ==
    IF \E i \in 1..Len(q) : q[i] = c
    THEN SelectSeq(q, LAMBDA x : x # c)
    ELSE IF q # <<>> THEN Tail(q) ELSE q

\* the abandoning contact left where it is
remove_none(q, c) == q

\* the list.remove(contact) of abandon(): the first element with this id goes
remove(q, c) ==
    IF \E i \in 1..Len(q) : q[i] = c
    THEN LET k == CHOOSE i \in 1..Len(q) :
                    q[i] = c /\ \A j \in 1..(i - 1) : q[j] # c
         IN  SubSeq(q, 1, k - 1) \o SubSeq(q, k + 1, Len(q))
    ELSE q

\* the hold condition with >= for >
takes_hold_ge(type, hold_draw, call_duration, hold_duration) ==
    /\ type = "call"
    /\ hold_draw
    /\ call_duration >= (hold_duration * 2)

\* Contact.handle's hold condition
takes_hold(type, hold_draw, call_duration, hold_duration) ==
    /\ type = "call"
    /\ hold_draw
    /\ call_duration > (hold_duration * 2)

\* the accumulator of the contact center in stat_log; an agent's accumulator
\* is named by the agent's id
CenterStatistics == 0

\* a call made from outside the simulation (tests, set-up code): what was
\* called, on which object, with which value, at which time, and whether it
\* raised
NoCall == [op |-> "none", id |-> 0, value |-> "None", time |-> 0, error |-> FALSE]
Call(op, id, value, t, error) ==
    [op |-> op, id |-> id, value |-> value, time |-> t, error |-> error]

(***************************************************************************)
(* Initial state: ContactCenter.__init__ has run and ContactCenter.start   *)
(* has handed the generator to env.process().                              *)
(***************************************************************************)
Init ==
    /\ now = 0
    /\ evq = <<Event(0, TRUE, "gen_init", 0, 0)>>
    /\ contact_count = 0
    /\ gen_type \in GeneratorTypes
    /\ contact = [c \in Contacts |-> Unborn]
    /\ abandon_process = [c \in Contacts |-> "none"]
    /\ hframe = [c \in Contacts |-> NoFrame]
    /\ agent = [a \in Agents |-> NewAgent(0)]
    /\ contact_queue = <<>>
    /\ contact_statistics = NewContactStatistics
    /\ agent_statistics = [a \in Agents |-> NewAgentStatistics]
    /\ requested = NoAgent
    /\ crashed = FALSE
    /\ has_cc = TRUE
    /\ enq_log = <<>>
    /\ deq_log = <<>>
    /\ hold_log = <<>>
    /\ hold_qualified = [c \in Contacts |-> "unknown"]
    /\ stat_log = <<>>
    /\ called = NoCall

(***************************************************************************)
(* env.run(): the head of the event queue is dispatched, and the clock     *)
(* moves to its time.                                                      *)
(***************************************************************************)
Dispatch(kind) ==
    /\ ~crashed
    /\ evq # <<>>
    /\ Head(evq).kind = kind
    /\ now' = Head(evq).time

rest == Tail(evq)
head == Head(evq)

\* ContactGenerator.start, up to its first yield
GeneratorInit ==
    /\ Dispatch("gen_init")
    /\ \E ia \in InterArrivalTimes :
          evq' = timeout(rest, head.time, ia, "gen_timeout", 0, 0)
    /\ UNCHANGED <<contact_count, gen_type, contact, abandon_process, hframe,
                   agent, contact_queue, contact_statistics, agent_statistics,
                   requested, crashed, has_cc, enq_log, deq_log, hold_log,
                   hold_qualified, stat_log, called>>

\* ContactGenerator.start, one turn of the loop: Contact.__init__,
\* request_agent, handle or append, and the next timeout
GeneratorArrival ==
    /\ Dispatch("gen_timeout")
    /\ contact_count < MaxContacts
    /\ LET c == contact_count + 1
           t == head.time
           a == request_agent(agent)
           q1 == process(process(rest, t, "abandon_init", c, 0),
                         t, "arrival_init", c, 0)
           q2 == IF a # NoAgent THEN process(q1, t, "handle_init", c, 0) ELSE q1
       IN  /\ contact_count' = c
           /\ \E ab \in AbandonTimings :
                 contact' = [contact EXCEPT ![c] = NewContact(gen_type, ab, t)]
           /\ abandon_process' = [abandon_process EXCEPT ![c] = "init"]
           /\ requested' = a
           /\ IF a # NoAgent
              THEN /\ hframe' = [hframe EXCEPT ![c] = StartFrame(a)]
                   /\ UNCHANGED <<contact_queue, enq_log>>
              ELSE /\ contact_queue' = Append(contact_queue, c)
                   /\ enq_log' = Append(enq_log, c)
                   /\ UNCHANGED hframe
           /\ IF c < MaxContacts
              THEN \E ia \in InterArrivalTimes :
                      evq' = timeout(q2, t, ia, "gen_timeout", 0, 0)
              ELSE evq' = q2
    /\ UNCHANGED <<gen_type, agent, contact_statistics, agent_statistics,
                   crashed, has_cc, deq_log, hold_log,
                   hold_qualified, stat_log, called>>

\* Contact._start_abandon_timer, up to its yield
AbandonInit ==
    /\ Dispatch("abandon_init")
    /\ LET c == head.c
       IN  /\ abandon_process' = [abandon_process EXCEPT ![c] = "waiting"]
           /\ evq' = timeout(rest, head.time, contact[c].abandon_timing,
                             "abandon_timeout", c, 0)
    /\ UNCHANGED <<contact_count, gen_type, contact, hframe, agent,
                   contact_queue, contact_statistics, agent_statistics,
                   requested, crashed, has_cc, enq_log, deq_log, hold_log,
                   hold_qualified, stat_log, called>>

\* abandon() without the statistics
abandon_unlogged(c) ==
    LET ct == [contact[c] EXCEPT !.status = "abandoned"]
    IN  /\ contact' = [contact EXCEPT ![c] = ct]
        /\ contact_queue' = IF has_cc THEN remove(contact_queue, c)
                            ELSE contact_queue
        /\ UNCHANGED <<contact_statistics, stat_log>>

\* Contact.abandon
abandon(c) ==
    LET ct == [contact[c] EXCEPT !.status = "abandoned"]
    IN  /\ contact' = [contact EXCEPT ![c] = ct]
        /\ IF has_cc
           THEN /\ contact_queue' = remove(contact_queue, c)
                /\ contact_statistics' = cs_add_contact(contact_statistics, ct)
                /\ stat_log' = Append(stat_log, <<CenterStatistics, c>>)
           ELSE UNCHANGED <<contact_queue, contact_statistics, stat_log>>

\* Contact._start_abandon_timer: the timeout fired, abandon() runs
AbandonTimeout ==
    /\ Dispatch("abandon_timeout")
    /\ abandon_process[head.c] = "waiting"
    /\ abandon(head.c)
    /\ abandon_process' = [abandon_process EXCEPT ![head.c] = "fired"]
    /\ evq' = rest
    /\ UNCHANGED <<contact_count, gen_type, hframe, agent, agent_statistics,
                   requested, crashed, has_cc, enq_log, deq_log, hold_log,
                   hold_qualified, called>>

\* the timer of an interrupted process still runs abandon() when it is due
AbandonTimeoutAnyway ==
    /\ Dispatch("abandon_timeout")
    /\ abandon_process[head.c] # "waiting"
    /\ abandon(head.c)
    /\ abandon_process' = [abandon_process EXCEPT ![head.c] = "fired"]
    /\ evq' = rest
    /\ UNCHANGED <<contact_count, gen_type, hframe, agent, agent_statistics,
                   requested, crashed, has_cc, enq_log, deq_log, hold_log,
                   hold_qualified, called>>

\* the Timeout of an interrupted abandon timer: it has no callback left
AbandonTimeoutStale ==
    /\ Dispatch("abandon_timeout")
    /\ abandon_process[head.c] # "waiting"
    /\ evq' = rest
    /\ UNCHANGED <<contact_count, gen_type, contact, abandon_process, hframe,
                   agent, contact_queue, contact_statistics, agent_statistics,
                   requested, crashed, has_cc, enq_log, deq_log, hold_log,
                   hold_qualified, stat_log, called>>

\* the Interruption of abandon_process is delivered: except simpy.Interrupt
Interruption ==
    /\ Dispatch("interrupt")
    /\ LET c == head.c
       IN  /\ abandon_process' =
                 [abandon_process EXCEPT
                    ![c] = IF @ = "waiting" THEN "interrupted" ELSE @]
           \* thrown into a generator that has not started, the Interrupt
           \* is not caught
           /\ crashed' = (abandon_process[c] = "init")
    /\ evq' = rest
    /\ UNCHANGED <<contact_count, gen_type, contact, hframe, agent,
                   contact_queue, contact_statistics, agent_statistics,
                   requested, has_cc, enq_log, deq_log, hold_log,
                   hold_qualified, stat_log, called>>

\* Contact.arrival, up to its yield
ArrivalInit ==
    /\ Dispatch("arrival_init")
    /\ \E m \in MenuTimes :
          evq' = timeout(rest, head.time, m, "menu_timeout", head.c, 0)
    /\ UNCHANGED <<contact_count, gen_type, contact, abandon_process, hframe,
                   agent, contact_queue, contact_statistics, agent_statistics,
                   requested, crashed, has_cc, enq_log, deq_log, hold_log,
                   hold_qualified, stat_log, called>>

\* Contact.skill setter
skill_setter(ct, value) ==
    IF value = "None" \/ ~has_cc \/ value \in Skills
    THEN [contact |-> [ct EXCEPT !.skill = value], error |-> FALSE]
    ELSE [contact |-> ct, error |-> TRUE]

\* the status stored whatever it is, the error raised afterwards
contact_status_setter_unchecked(ct, value) ==
    [contact |-> [ct EXCEPT !.status = value],
     error |-> value \notin ContactStatusValues]

\* Contact.status setter
contact_status_setter(ct, value) ==
    IF value \in ContactStatusValues
    THEN [contact |-> [ct EXCEPT !.status = value], error |-> FALSE]
    ELSE [contact |-> ct, error |-> TRUE]

\* Contact.contact_type setter
contact_type_setter(ct, value) ==
    IF value \in ContactTypes
    THEN [contact |-> [ct EXCEPT !.contact_type = value], error |-> FALSE]
    ELSE [contact |-> ct, error |-> TRUE]

\* the abandon timer started again when the contact is queued
ArrivalQueuedRestarts ==
    /\ Dispatch("menu_timeout")
    /\ LET c == head.c
           r1 == skill_setter(contact[c], "sales")
           r2 == contact_status_setter(r1.contact, "queued")
       IN  /\ contact' = [contact EXCEPT ![c] = r2.contact]
           /\ crashed' = (r1.error \/ r2.error)
    /\ evq' = timeout(rest, head.time, contact[head.c].abandon_timing,
                      "abandon_timeout", head.c, 0)
    /\ UNCHANGED <<contact_count, gen_type, abandon_process, hframe, agent,
                   contact_queue, contact_statistics, agent_statistics,
                   requested, has_cc, enq_log, deq_log, hold_log,
                   hold_qualified, stat_log, called>>

\* Contact.arrival, after its yield: the menu selection
ArrivalQueued ==
    /\ Dispatch("menu_timeout")
    /\ LET c == head.c
           r1 == skill_setter(contact[c], "sales")
           r2 == contact_status_setter(r1.contact, "queued")
       IN  /\ contact' = [contact EXCEPT ![c] = r2.contact]
           /\ crashed' = (r1.error \/ r2.error)
    /\ evq' = rest
    /\ UNCHANGED <<contact_count, gen_type, abandon_process, hframe, agent,
                   contact_queue, contact_statistics, agent_statistics,
                   requested, has_cc, enq_log, deq_log, hold_log,
                   hold_qualified, stat_log, called>>

\* the interrupt delivered as an ordinary event, behind the timeouts
\* that are due at the same time
interrupt_not_urgent(q, t, c) == schedule(q, Event(t, FALSE, "interrupt", c, 0))

\* Process.interrupt(): an URGENT Interruption event at now
interrupt(q, t, c) == schedule(q, Event(t, TRUE, "interrupt", c, 0))

\* the wait measured from the start of the run, not from the arrival
answer_from_zero(ct, a, t) ==
    [ct EXCEPT !.answer_time = t,
               !.wait_time = t,
               !.handled_by = a,
               !.status = "in_progress"]

\* Contact.answer
answer(ct, a, t) ==
    [ct EXCEPT !.answer_time = t,
               !.wait_time = t - ct.arrival_time,
               !.handled_by = a,
               !.status = "in_progress"]

\* Contact.handle, up to its first yield: the draws, the interrupt of the
\* abandon timer, answer(), and the hold decision
HandleInit ==
    /\ Dispatch("handle_init")
    /\ LET c == head.c
           a == hframe[c].agent
           t == head.time
       IN  IF abandon_process[c] \in {"fired", "interrupted"}
           THEN \* interrupt() of a terminated process: RuntimeError
                /\ crashed' = TRUE
                /\ evq' = rest
                /\ UNCHANGED <<contact, hframe, agent, hold_qualified>>
           ELSE \E cd0 \in CallDurations, hd \in HoldDurations,
                   wud \in WrapUpDurations,
                   draw \in (IF contact[c].contact_type = "call"
                             THEN BOOLEAN ELSE {FALSE}) :
                \E ht \in HoldTimings(cd0) :
                   LET r == status_setter(agent[a], "busy", t)
                       q1 == start_wrap_up_timer(interrupt(rest, t, c), r, t, a)
                       cd == cd0 * proficiency(a)
                       hold == takes_hold(contact[c].contact_type, draw, cd, hd)
                   IN  /\ contact' = [contact EXCEPT ![c] = answer(@, a, t)]
                       /\ agent' = [agent EXCEPT ![a] = r.agent]
                       /\ crashed' = r.error
                       /\ hframe' = [hframe EXCEPT ![c] =
                             [pc |-> IF hold THEN "hold_timing" ELSE "call",
                              agent |-> a, call_duration |-> cd,
                              hold_duration |-> IF hold THEN hd ELSE 0,
                              hold_timing |-> IF hold THEN ht ELSE 0,
                              wrap_up_duration |-> wud]]
                       /\ hold_qualified' = [hold_qualified EXCEPT ![c] =
                             IF /\ contact[c].contact_type = "call"
                                /\ draw
                                /\ cd > 2 * hd
                             THEN "yes" ELSE "no"]
                       /\ evq' = IF hold
                                 THEN timeout(q1, t, ht, "hold_timing_timeout", c, 0)
                                 ELSE timeout(q1, t, cd, "call_timeout", c, 0)
    /\ UNCHANGED <<contact_count, gen_type, abandon_process, contact_queue,
                   contact_statistics, agent_statistics, requested, has_cc,
                   enq_log, deq_log, hold_log, stat_log, called>>

\* Contact.handle: the wait before the hold is over, hold() is started
HandleHoldStart ==
    /\ Dispatch("hold_timing_timeout")
    /\ hframe' = [hframe EXCEPT ![head.c].pc = "hold"]
    /\ evq' = process(rest, head.time, "hold_init", head.c,
                      hframe[head.c].hold_duration)
    /\ UNCHANGED <<contact_count, gen_type, contact, abandon_process, agent,
                   contact_queue, contact_statistics, agent_statistics,
                   requested, crashed, has_cc, enq_log, deq_log, hold_log,
                   hold_qualified, stat_log, called>>

\* the hold duration stored, not added
hold_assigns(ct, hold_duration) ==
    [ct EXCEPT !.hold_duration = hold_duration,
               !.hold_count = @ + 1]

\* Contact.hold: the counters
hold(ct, hold_duration) ==
    [ct EXCEPT !.hold_duration = @ + hold_duration,
               !.hold_count = @ + 1]

\* hold() that returns without waiting
HoldInitNoWait ==
    /\ Dispatch("hold_init")
    /\ LET c == head.c
           hold_duration == head.arg
       IN  /\ contact' = [contact EXCEPT ![c] = hold(@, hold_duration)]
           /\ evq' = timeout(rest, head.time, 0, "hold_timeout", c, 0)
           /\ hold_log' = Append(hold_log, <<c, hold_duration>>)
    /\ UNCHANGED <<contact_count, gen_type, abandon_process, hframe, agent,
                   contact_queue, contact_statistics, agent_statistics,
                   requested, crashed, has_cc, enq_log, deq_log,
                   hold_qualified, stat_log, called>>

\* Contact.hold, up to its yield
HoldInit ==
    /\ Dispatch("hold_init")
    /\ LET c == head.c
           hold_duration == head.arg
       IN  /\ contact' = [contact EXCEPT ![c] = hold(@, hold_duration)]
           /\ evq' = timeout(rest, head.time, hold_duration, "hold_timeout", c, 0)
           /\ hold_log' = Append(hold_log, <<c, hold_duration>>)
    /\ UNCHANGED <<contact_count, gen_type, abandon_process, hframe, agent,
                   contact_queue, contact_statistics, agent_statistics,
                   requested, crashed, has_cc, enq_log, deq_log,
                   hold_qualified, stat_log, called>>

\* Contact.hold, after its yield: the process ends
HoldTimeout ==
    /\ Dispatch("hold_timeout")
    /\ evq' = succeed(rest, head.time, "hold_done", head.c, 0)
    /\ UNCHANGED <<contact_count, gen_type, contact, abandon_process, hframe,
                   agent, contact_queue, contact_statistics, agent_statistics,
                   requested, crashed, has_cc, enq_log, deq_log, hold_log,
                   hold_qualified, stat_log, called>>

\* the whole call_duration waited for after the hold
HandleAfterHoldWhole ==
    /\ Dispatch("hold_done")
    /\ hframe[head.c].pc = "hold"
    /\ LET c == head.c
           f == hframe[c]
       IN  /\ contact' = [contact EXCEPT
                 ![c].hold_count = @ + 1,
                 ![c].hold_duration = @ + f.hold_duration]
           /\ evq' = timeout(rest, head.time, f.call_duration,
                             "remainder_timeout", c, 0)
           /\ hframe' = [hframe EXCEPT ![c].pc = "remainder"]
    /\ UNCHANGED <<contact_count, gen_type, abandon_process, agent,
                   contact_queue, contact_statistics, agent_statistics,
                   requested, crashed, has_cc, enq_log, deq_log, hold_log,
                   hold_qualified, stat_log, called>>

\* Contact.handle, resumed by the end of hold(): the counters are added
\* and the remainder of the call is waited for
HandleAfterHold ==
    /\ Dispatch("hold_done")
    /\ hframe[head.c].pc = "hold"
    /\ LET c == head.c
           f == hframe[c]
       IN  /\ contact' = [contact EXCEPT
                 ![c].hold_count = @ + 1,
                 ![c].hold_duration = @ + f.hold_duration]
           /\ evq' = timeout(rest, head.time, f.call_duration - f.hold_duration,
                             "remainder_timeout", c, 0)
           /\ hframe' = [hframe EXCEPT ![c].pc = "remainder"]
    /\ UNCHANGED <<contact_count, gen_type, abandon_process, agent,
                   contact_queue, contact_statistics, agent_statistics,
                   requested, crashed, has_cc, enq_log, deq_log, hold_log,
                   hold_qualified, stat_log, called>>

\* Contact.handle: the call is over, wrap_up() is started
HandleWrapUpStart ==
    /\ \/ Dispatch("call_timeout")
       \/ Dispatch("remainder_timeout")
    /\ hframe' = [hframe EXCEPT ![head.c].pc = "wrap_up"]
    /\ evq' = process(rest, head.time, "wrap_up_init", head.c, 0)
    /\ UNCHANGED <<contact_count, gen_type, contact, abandon_process, agent,
                   contact_queue, contact_statistics, agent_statistics,
                   requested, crashed, has_cc, enq_log, deq_log, hold_log,
                   hold_qualified, stat_log, called>>

\* 'completed' assigned before the wait of wrap_up(), not after it
WrapUpInitCompletes ==
    /\ Dispatch("wrap_up_init")
    /\ LET a == contact[head.c].handled_by
           r == status_setter(agent[a], "wrap_up", head.time)
       IN  /\ agent' = [agent EXCEPT ![a] = r.agent]
           /\ crashed' = r.error
           /\ contact' = [contact EXCEPT ![head.c].status = "completed"]
           /\ evq' = timeout(start_wrap_up_timer(rest, r, head.time, a),
                             head.time, avg_wrap_up_time, "wrap_up_timeout",
                             head.c, 0)
    /\ UNCHANGED <<contact_count, gen_type, abandon_process, hframe,
                   contact_queue, contact_statistics, agent_statistics,
                   requested, has_cc, enq_log, deq_log, hold_log,
                   hold_qualified, stat_log, called>>

\* Contact.wrap_up, up to its yield
WrapUpInit ==
    /\ Dispatch("wrap_up_init")
    /\ LET a == contact[head.c].handled_by
           r == status_setter(agent[a], "wrap_up", head.time)
       IN  /\ agent' = [agent EXCEPT ![a] = r.agent]
           /\ crashed' = r.error
    /\ LET a == contact[head.c].handled_by
           r == status_setter(agent[a], "wrap_up", head.time)
       IN  evq' = timeout(start_wrap_up_timer(rest, r, head.time, a), head.time,
                          avg_wrap_up_time, "wrap_up_timeout", head.c, 0)
    /\ UNCHANGED <<contact_count, gen_type, contact, abandon_process, hframe,
                   contact_queue, contact_statistics, agent_statistics,
                   requested, has_cc, enq_log, deq_log, hold_log,
                   hold_qualified, stat_log, called>>

\* Contact.wrap_up, after its yield: the process ends
WrapUpTimeout ==
    /\ Dispatch("wrap_up_timeout")
    /\ LET r == contact_status_setter(contact[head.c], "completed")
       IN  /\ contact' = [contact EXCEPT ![head.c] = r.contact]
           /\ crashed' = r.error
    /\ evq' = succeed(rest, head.time, "wrap_up_done", head.c, 0)
    /\ UNCHANGED <<contact_count, gen_type, abandon_process, hframe, agent,
                   contact_queue, contact_statistics, agent_statistics,
                   requested, has_cc, enq_log, deq_log, hold_log,
                   hold_qualified, stat_log, called>>

\* the element read and left in the list
pop_keeps(q, i) == q

\* the whole queue taken at once
pop_all(q, i) == <<>>

\* list.pop(i): what is left of the list (i counts from 0)
pop(q, i) == SubSeq(q, 1, i) \o SubSeq(q, i + 2, Len(q))

\* Contact.end: the contact as end() leaves it
end(ct, wrap_up_duration, t) ==
    [ct EXCEPT !.duration = t - ct.arrival_time + wrap_up_duration,
               !.status = "completed"]

\* Contact.handle, resumed by the end of wrap_up(): end(), then the queue
\* is checked and its head is handled by the same agent
HandleEnd ==
    /\ Dispatch("wrap_up_done")
    /\ hframe[head.c].pc = "wrap_up"
    /\ LET c == head.c
           t == head.time
           f == hframe[c]
           a == contact[c].handled_by
           r == status_setter(agent[a], "wrap_up", t)
           ct == end(contact[c], f.wrap_up_duration, t)
           q1 == start_wrap_up_timer(rest, r, t, a)
           pops == has_cc /\ Len(contact_queue) > 0
           next_contact == contact_queue[1]
       IN  /\ agent' = [agent EXCEPT ![a] = r.agent]
           /\ crashed' = r.error
           /\ contact' = [contact EXCEPT ![c] = ct]
           /\ contact_statistics' =
                 IF has_cc THEN cs_add_contact(contact_statistics, ct)
                 ELSE contact_statistics
           /\ agent_statistics' =
                 [agent_statistics EXCEPT ![a] = as_add_contact(@, ct)]
           /\ stat_log' =
                 (IF has_cc THEN Append(stat_log, <<CenterStatistics, c>>)
                  ELSE stat_log) \o <<(<<a, c>>)>>
           /\ IF pops
              THEN /\ contact_queue' = pop(contact_queue, 0)
                   /\ deq_log' = Append(deq_log, next_contact)
                   /\ hframe' = [hframe EXCEPT ![c].pc = "done",
                                               ![next_contact] = StartFrame(f.agent)]
                   /\ evq' = process(q1, t, "handle_init", next_contact, 0)
              ELSE /\ hframe' = [hframe EXCEPT ![c].pc = "done"]
                   /\ evq' = q1
                   /\ UNCHANGED <<contact_queue, deq_log>>
    /\ UNCHANGED <<contact_count, gen_type, abandon_process, requested,
                   has_cc, enq_log, hold_log,
                   hold_qualified, called>>

Next ==
    \/ GeneratorInit
    \/ GeneratorArrival
    \/ AbandonInit
    \/ AbandonTimeout
    \/ AbandonTimeoutStale
    \/ Interruption
    \/ ArrivalInit
    \/ ArrivalQueued
    \/ HandleInit
    \/ HandleHoldStart
    \/ HoldInit
    \/ HoldTimeout
    \/ HandleAfterHold
    \/ HandleWrapUpStart
    \/ WrapUpInit
    \/ WrapUpTimeout
    \/ HandleEnd

Spec == Init /\ [][Next]_vars

(***************************************************************************)
(* The objects used on their own, as tests/test_contact.py and             *)
(* tests/test_agent.py use them: one Contact built without a contact       *)
(* center, the agents of an agent_list, and the operations called on them  *)
(* from outside while env.run() dispatches the contact's events.           *)
(***************************************************************************)
InitUnit ==
    /\ now = 0
    /\ evq = process(process(<<>>, 0, "abandon_init", 1, 0), 0, "arrival_init", 1, 0)
    /\ contact_count = 1
    /\ gen_type \in GeneratorTypes
    /\ \E ab \in AbandonTimings :
          contact = [c \in Contacts |->
                        IF c = 1 THEN NewContact(gen_type, ab, 0) ELSE Unborn]
    /\ abandon_process = [c \in Contacts |-> IF c = 1 THEN "init" ELSE "none"]
    /\ hframe = [c \in Contacts |-> NoFrame]
    /\ agent = [a \in Agents |-> NewAgent(0)]
    /\ contact_queue = <<>>
    /\ contact_statistics = NewContactStatistics
    /\ agent_statistics = [a \in Agents |-> NewAgentStatistics]
    /\ requested = NoAgent
    /\ crashed = FALSE
    /\ has_cc = FALSE
    /\ enq_log = <<>>
    /\ deq_log = <<>>
    /\ hold_log = <<>>
    /\ hold_qualified = [c \in Contacts |-> "unknown"]
    /\ stat_log = <<>>
    /\ called = NoCall

\* env.process(contact.hold(hold_duration)), called from outside
UnitHold ==
    /\ ~crashed
    /\ Len(hold_log)
          + Cardinality({i \in 1..Len(evq) : evq[i].kind = "hold_init"})
          < MaxUnitOps
    /\ \E d \in HoldDurations : evq' = process(evq, now, "hold_init", 1, d)
    /\ UNCHANGED <<now, contact_count, gen_type, contact, abandon_process,
                   hframe, agent, contact_queue, contact_statistics,
                   agent_statistics, requested, crashed, has_cc, enq_log,
                   deq_log, hold_log, hold_qualified, stat_log, called>>

\* the end of a hold() process that no handle() waits for
HoldProcessEnd ==
    /\ Dispatch("hold_done")
    /\ hframe[head.c].pc # "hold"
    /\ evq' = rest
    /\ UNCHANGED <<contact_count, gen_type, contact, abandon_process, hframe,
                   agent, contact_queue, contact_statistics, agent_statistics,
                   requested, crashed, has_cc, enq_log, deq_log, hold_log,
                   hold_qualified, stat_log, called>>

\* what a caller can assign to Agent.status
AssignedStatuses ==
    AgentStatusValues \cup {"invalid_status", AgentStatus_AVAILABLE}

\* agent.status = value, called from outside; the caller catches ValueError
UnitSetStatus ==
    /\ ~crashed
    /\ \E a \in Agents, value \in AssignedStatuses :
          LET r == status_setter(agent[a], value, now)
          IN  /\ agent' = [agent EXCEPT ![a] = r.agent]
              /\ evq' = start_wrap_up_timer(evq, r, now, a)
              /\ called' = Call("agent.status", a, value, now, r.error)
    /\ UNCHANGED <<now, contact_count, gen_type, contact, abandon_process,
                   hframe, contact_queue, contact_statistics,
                   agent_statistics, requested, crashed, has_cc, enq_log,
                   deq_log, hold_log, hold_qualified, stat_log>>

\* request_agent(), called from outside
UnitRequestAgent ==
    /\ ~crashed
    /\ requested' = request_agent(agent)
    /\ UNCHANGED <<now, evq, contact_count, gen_type, contact,
                   abandon_process, hframe, agent, contact_queue,
                   contact_statistics, agent_statistics, crashed, has_cc,
                   enq_log, deq_log, hold_log, hold_qualified, stat_log, called>>

NextUnit ==
    \/ UnitHold
    \/ AbandonInit
    \/ AbandonTimeout
    \/ ArrivalInit
    \/ ArrivalQueued
    \/ HoldInit
    \/ HoldTimeout
    \/ HoldProcessEnd

SpecUnit == InitUnit /\ [][NextUnit]_vars

(***************************************************************************)
(* The agents of an agent_list on their own: statuses are assigned from    *)
(* outside, request_agent() is called, and env.run(until=...) moves the    *)
(* clock of an environment with no event.                                  *)
(***************************************************************************)
InitAgent ==
    /\ now = 0
    /\ evq = <<>>
    /\ contact_count = 0
    /\ gen_type \in GeneratorTypes
    /\ contact = [c \in Contacts |-> Unborn]
    /\ abandon_process = [c \in Contacts |-> "none"]
    /\ hframe = [c \in Contacts |-> NoFrame]
    /\ agent = [a \in Agents |-> NewAgent(0)]
    /\ contact_queue = <<>>
    /\ contact_statistics = NewContactStatistics
    /\ agent_statistics = [a \in Agents |-> NewAgentStatistics]
    /\ requested = NoAgent
    /\ crashed = FALSE
    /\ has_cc = TRUE
    /\ enq_log = <<>>
    /\ deq_log = <<>>
    /\ hold_log = <<>>
    /\ hold_qualified = [c \in Contacts |-> "unknown"]
    /\ stat_log = <<>>
    /\ called = NoCall

\* env.run(until=env.now + 1) with no event to dispatch
UnitRun ==
    /\ ~crashed
    /\ evq = <<>>
    /\ now < MaxClock
    /\ now' = now + 1
    /\ UNCHANGED <<evq, contact_count, gen_type, contact, abandon_process,
                   hframe, agent, contact_queue, contact_statistics,
                   agent_statistics, requested, crashed, has_cc, enq_log,
                   deq_log, hold_log, hold_qualified, stat_log, called>>

NextAgent ==
    \/ UnitSetStatus
    \/ UnitRequestAgent
    \/ UnitRun

SpecAgent == InitAgent /\ [][NextAgent]_vars

(***************************************************************************)
(* A Contact called from outside before env.run(), as test_abandon does:   *)
(* contact 1 was built (with or without a contact center) and never        *)
(* appended; with a contact center, the contacts after it may be waiting   *)
(* in the queue, as the generator appended them.  Its attributes are       *)
(* assigned and abandon() is called directly; the caller catches           *)
(* ValueError.                                                             *)
(***************************************************************************)
InitCalls ==
    /\ now = 0
    /\ gen_type \in GeneratorTypes
    /\ has_cc \in BOOLEAN
    /\ contact_count \in (IF has_cc THEN Contacts ELSE {1})
    /\ evq = [i \in 1..(2 * contact_count) |->
                 Event(0, TRUE,
                       IF i % 2 = 1 THEN "abandon_init" ELSE "arrival_init",
                       (i + 1) \div 2, 0)]
    /\ \E ab \in AbandonTimings :
          contact = [c \in Contacts |->
                        IF c <= contact_count THEN NewContact(gen_type, ab, 0)
                        ELSE Unborn]
    /\ abandon_process =
          [c \in Contacts |-> IF c <= contact_count THEN "init" ELSE "none"]
    /\ hframe = [c \in Contacts |-> NoFrame]
    /\ agent = [a \in Agents |-> NewAgent(0)]
    /\ contact_queue = [i \in 1..(contact_count - 1) |-> i + 1]
    /\ contact_statistics = NewContactStatistics
    /\ agent_statistics = [a \in Agents |-> NewAgentStatistics]
    /\ requested = NoAgent
    /\ crashed = FALSE
    /\ enq_log = contact_queue
    /\ deq_log = <<>>
    /\ hold_log = <<>>
    /\ hold_qualified = [c \in Contacts |-> "unknown"]
    /\ stat_log = <<>>
    /\ called = NoCall

\* what a caller can assign to Contact.status, .contact_type and .skill
AssignedContactStatuses == ContactStatusValues \cup {"invalid_status"}
AssignedContactTypes == ContactTypes \cup {"invalid_type"}
AssignedSkills == Skills \cup {"None", "invalid_skill"}

\* contact.status = value
CallSetContactStatus ==
    /\ ~crashed
    /\ \E value \in AssignedContactStatuses :
          LET r == contact_status_setter(contact[1], value)
          IN  /\ contact' = [contact EXCEPT ![1] = r.contact]
              /\ called' = Call("contact.status", 1, value, now, r.error)
    /\ UNCHANGED <<now, evq, contact_count, gen_type, abandon_process, hframe,
                   agent, contact_queue, contact_statistics, agent_statistics,
                   requested, crashed, has_cc, enq_log, deq_log, hold_log,
                   hold_qualified, stat_log>>

\* contact.contact_type = value
CallSetContactType ==
    /\ ~crashed
    /\ \E value \in AssignedContactTypes :
          LET r == contact_type_setter(contact[1], value)
          IN  /\ contact' = [contact EXCEPT ![1] = r.contact]
              /\ called' = Call("contact.contact_type", 1, value, now, r.error)
    /\ UNCHANGED <<now, evq, contact_count, gen_type, abandon_process, hframe,
                   agent, contact_queue, contact_statistics, agent_statistics,
                   requested, crashed, has_cc, enq_log, deq_log, hold_log,
                   hold_qualified, stat_log>>

\* contact.skill = value
CallSetSkill ==
    /\ ~crashed
    /\ \E value \in AssignedSkills :
          LET r == skill_setter(contact[1], value)
          IN  /\ contact' = [contact EXCEPT ![1] = r.contact]
              /\ called' = Call("contact.skill", 1, value, now, r.error)
    /\ UNCHANGED <<now, evq, contact_count, gen_type, abandon_process, hframe,
                   agent, contact_queue, contact_statistics, agent_statistics,
                   requested, crashed, has_cc, enq_log, deq_log, hold_log,
                   hold_qualified, stat_log>>

\* contact.abandon(abandon_timing), on any of the contacts
CallAbandon ==
    /\ ~crashed
    /\ Len(stat_log) < MaxUnitOps
    /\ \E c \in 1..contact_count :
          /\ abandon(c)
          /\ called' = Call("contact.abandon", c, "None", now, FALSE)
    /\ UNCHANGED <<now, evq, contact_count, gen_type, abandon_process, hframe,
                   agent, agent_statistics, requested, crashed, has_cc,
                   enq_log, deq_log, hold_log, hold_qualified>>

\* the attributes of the contact are assigned
NextCalls ==
    \/ CallSetContactStatus
    \/ CallSetContactType
    \/ CallSetSkill

SpecCalls == InitCalls /\ [][NextCalls]_vars

\* abandon() is called, on contacts that wait in the queue and on the one
\* that does not
NextAbandon == CallAbandon

SpecAbandon == InitCalls /\ [][NextAbandon]_vars

(***************************************************************************)
(* A run of the contact center with every agent set to 'offline' before    *)
(* start(): request_agent() finds nobody, so no handle() is ever started.  *)
(***************************************************************************)
InitNoAgent ==
    /\ now = 0
    /\ evq = <<Event(0, TRUE, "gen_init", 0, 0)>>
    /\ contact_count = 0
    /\ gen_type \in GeneratorTypes
    /\ contact = [c \in Contacts |-> Unborn]
    /\ abandon_process = [c \in Contacts |-> "none"]
    /\ hframe = [c \in Contacts |-> NoFrame]
    /\ agent = [a \in Agents |-> status_setter(NewAgent(0), "offline", 0).agent]
    /\ contact_queue = <<>>
    /\ contact_statistics = NewContactStatistics
    /\ agent_statistics = [a \in Agents |-> NewAgentStatistics]
    /\ requested = NoAgent
    /\ crashed = FALSE
    /\ has_cc = TRUE
    /\ enq_log = <<>>
    /\ deq_log = <<>>
    /\ hold_log = <<>>
    /\ hold_qualified = [c \in Contacts |-> "unknown"]
    /\ stat_log = <<>>
    /\ called = NoCall

NextNoAgent ==
    \/ GeneratorInit
    \/ GeneratorArrival
    \/ AbandonInit
    \/ AbandonTimeout
    \/ ArrivalInit
    \/ ArrivalQueued

SpecNoAgent == InitNoAgent /\ [][NextNoAgent]_vars

(***************************************************************************)
(* One agent and one contact: the contact is built at time 0 with a        *)
(* contact center whose queue is empty, request_agent() returns the first  *)
(* agent, and handle(agent) is handed to env.process(), as one turn of     *)
(* ContactGenerator.start does.  No other contact arrives.                 *)
(***************************************************************************)
InitOne ==
    /\ now = 0
    /\ contact_count = 1
    /\ gen_type \in GeneratorTypes
    /\ \E ab \in AbandonTimings :
          contact = [c \in Contacts |->
                        IF c = 1 THEN NewContact(gen_type, ab, 0) ELSE Unborn]
    /\ abandon_process = [c \in Contacts |-> IF c = 1 THEN "init" ELSE "none"]
    /\ agent = [a \in Agents |-> NewAgent(0)]
    /\ requested = request_agent(agent)
    /\ hframe = [c \in Contacts |->
                    IF c = 1 THEN StartFrame(requested) ELSE NoFrame]
    /\ evq = process(process(process(<<>>, 0, "abandon_init", 1, 0),
                             0, "arrival_init", 1, 0),
                     0, "handle_init", 1, 0)
    /\ contact_queue = <<>>
    /\ contact_statistics = NewContactStatistics
    /\ agent_statistics = [a \in Agents |-> NewAgentStatistics]
    /\ crashed = FALSE
    /\ has_cc = TRUE
    /\ enq_log = <<>>
    /\ deq_log = <<>>
    /\ hold_log = <<>>
    /\ hold_qualified = [c \in Contacts |-> "unknown"]
    /\ stat_log = <<>>
    /\ called = NoCall

NextOne ==
    \/ AbandonInit
    \/ AbandonTimeoutStale
    \/ Interruption
    \/ ArrivalInit
    \/ ArrivalQueued
    \/ HandleInit
    \/ HandleHoldStart
    \/ HoldInit
    \/ HoldTimeout
    \/ HandleAfterHold
    \/ HandleWrapUpStart
    \/ WrapUpInit
    \/ WrapUpTimeout
    \/ HandleEnd

SpecOne == InitOne /\ [][NextOne]_vars

(***************************************************************************)
(* handle() started from outside on the stand-alone contact, at any time   *)
(* of its life: before its abandonment timer is due, after the timer has   *)
(* fired, and again after a first handle() has ended.                      *)
(***************************************************************************)
\* env.process(contact.handle(agent)), called from outside
UnitHandle ==
    /\ ~crashed
    /\ hframe[1].pc \in {"none", "done"}
    /\ \E a \in Agents :
          /\ hframe' = [hframe EXCEPT ![1] = StartFrame(a)]
          /\ evq' = process(evq, now, "handle_init", 1, 0)
          /\ called' = Call("contact.handle", 1, "None", now, FALSE)
    /\ UNCHANGED <<now, contact_count, gen_type, contact, abandon_process,
                   agent, contact_queue, contact_statistics, agent_statistics,
                   requested, crashed, has_cc, enq_log, deq_log, hold_log,
                   hold_qualified, stat_log>>

NextHandle ==
    \/ UnitHandle
    \/ AbandonInit
    \/ AbandonTimeout
    \/ AbandonTimeoutStale
    \/ Interruption
    \/ ArrivalInit
    \/ ArrivalQueued
    \/ HandleInit
    \/ HandleHoldStart
    \/ HoldInit
    \/ HoldTimeout
    \/ HandleAfterHold
    \/ HandleWrapUpStart
    \/ WrapUpInit
    \/ WrapUpTimeout
    \/ HandleEnd

SpecHandle == InitUnit /\ [][NextHandle]_vars

(***************************************************************************)
(* Vocabulary of the properties.                                           *)
(***************************************************************************)
Born(c) == contact[c].status # "unborn"
InQueue(c) == \E i \in 1..Len(contact_queue) : contact_queue[i] = c
TerminalStatuses == {"abandoned", "completed"}
Answered(c) == contact[c].answer_time # None
Pending(q, kind, c) == \E i \in 1..Len(q) : q[i].kind = kind /\ q[i].c = c
RunOver == evq = <<>> /\ ~crashed

\* the position of a contact in a sequence without repetitions (0: absent)
Pos(q, c) == IF \E i \in 1..Len(q) : q[i] = c
             THEN CHOOSE i \in 1..Len(q) : q[i] = c
             ELSE 0

\* q holds elements of r only, each once, in the order they have in r
InOrderOf(q, r) ==
    /\ \A i \in 1..Len(q) : Pos(r, q[i]) > 0
    /\ \A i, j \in 1..Len(q) : i < j => Pos(r, q[i]) < Pos(r, q[j])

\* the hold() executions of contact c: how many, and their durations added
RECURSIVE HoldSum(_, _)
HoldSum(log, c) ==
    IF log = <<>> THEN 0
    ELSE (IF Head(log)[1] = c THEN Head(log)[2] ELSE 0) + HoldSum(Tail(log), c)
HoldCalls(log, c) == Cardinality({i \in 1..Len(log) : log[i][1] = c})

(***************************************************************************)
(* C1.  A contact is in contact_queue if and only if its status is         *)
(* 'queued'.                                                               *)
(***************************************************************************)
C1_QueuedIffInQueue ==
    \A c \in Contacts :
        Born(c) => (InQueue(c) <=> contact[c].status = "queued")

(***************************************************************************)
(* C2.  'abandoned' and 'completed' are terminal: once a contact has one   *)
(* of them, no step changes its status.                                    *)
(***************************************************************************)
C2_TerminalIsFinal ==
    [][\A c \in Contacts :
          contact[c].status \in TerminalStatuses
              => contact'[c].status = contact[c].status]_vars

(***************************************************************************)
(* C3.  Every contact the generator created is 'abandoned' or 'completed'  *)
(* when the run is over (no event is left to dispatch).                    *)
(***************************************************************************)
C3_AllTerminalAtEnd ==
    RunOver => \A c \in Contacts :
                  Born(c) => contact[c].status \in TerminalStatuses

(***************************************************************************)
(* C4.  A contact is answered only while its abandonment timer is pending, *)
(* with the interrupt of that timer already issued; a contact whose        *)
(* abandon() has run is never answered, and the timer of an answered       *)
(* contact never fires.                                                    *)
(***************************************************************************)
C4_AnswerInterruptsFirst ==
    /\ [](\A c \in Contacts :
            Answered(c) =>
               \/ abandon_process[c] = "interrupted"
               \/ abandon_process[c] = "waiting" /\ Pending(evq, "interrupt", c))
    /\ [][\A c \in Contacts :
            (~Answered(c) /\ contact'[c].answer_time # None)
               => /\ abandon_process[c] = "waiting"
                  /\ Pending(evq', "interrupt", c)]_vars

\* a dequeued contact has been answered and its timer interrupted, and a
\* contact whose timer was due at its arrival time has been answered
C4_Witness ==
    /\ \E c \in Contacts :
          /\ Pos(deq_log, c) > 0
          /\ Answered(c)
          /\ abandon_process[c] = "interrupted"
    /\ \E c \in Contacts :
          /\ contact[c].abandon_timing = 0
          /\ Answered(c)
          /\ abandon_process[c] = "interrupted"

(***************************************************************************)
(* C5.  A hold taken in handle() is counted once: a contact whose handle() *)
(* is over has hold_count equal to the number of hold() executions and     *)
(* hold_duration equal to the sum of their durations.                      *)
(***************************************************************************)
C5_HoldCountedOnce ==
    \A c \in Contacts :
        hframe[c].pc = "done"
            => /\ contact[c].hold_count = HoldCalls(hold_log, c)
               /\ contact[c].hold_duration = HoldSum(hold_log, c)

(***************************************************************************)
(* C6.  Every execution of hold(d) adds 1 to hold_count and d to           *)
(* hold_duration and suspends for d: the process is resumed by a timeout   *)
(* at now + d.  After n executions hold_count is n and hold_duration is    *)
(* the sum of the n durations.                                             *)
(***************************************************************************)
C6_HoldAccumulates ==
    /\ [](\A c \in Contacts :
            /\ contact[c].hold_count = HoldCalls(hold_log, c)
            /\ contact[c].hold_duration = HoldSum(hold_log, c))
    /\ [][Len(hold_log') = Len(hold_log) + 1
            => LET c == hold_log'[Len(hold_log')][1]
                   d == hold_log'[Len(hold_log')][2]
               IN  /\ contact'[c].hold_count = contact[c].hold_count + 1
                   /\ contact'[c].hold_duration = contact[c].hold_duration + d
                   /\ \E i \in 1..Len(evq') :
                         evq'[i] = Event(now' + d, FALSE, "hold_timeout", c, 0)]_vars

\* holds of different durations have been executed and are over
C6_Witness ==
    \E c \in Contacts :
        /\ HoldCalls(hold_log, c) >= 2
        /\ \E i, j \in 1..Len(hold_log) : hold_log[i][2] # hold_log[j][2]
        /\ ~Pending(evq, "hold_init", c)
        /\ ~Pending(evq, "hold_timeout", c)
        /\ contact[c].hold_count >= 2

(***************************************************************************)
(* C7.  A contact that does not qualify for a hold (not a call, or the     *)
(* draw failed, or call_duration <= 2 * hold_duration) has hold_count 0    *)
(* and hold_duration 0.                                                    *)
(***************************************************************************)
C7_NoHoldNoCount ==
    \A c \in Contacts :
        hold_qualified[c] = "no"
            => contact[c].hold_count = 0 /\ contact[c].hold_duration = 0

\* a call long enough for some hold durations completed without a hold
C7_Witness ==
    \E c \in Contacts :
        /\ hold_qualified[c] = "no"
        /\ contact[c].contact_type = "call"
        /\ hframe[c].call_duration > 0
        /\ hframe[c].pc = "done"
        /\ contact[c].status = "completed"

(***************************************************************************)
(* C8.  The queue is FIFO: contacts are popped in the order they were      *)
(* appended, a popped contact was appended before every contact still      *)
(* queued, and an abandonment removes the abandoning contact only.         *)
(***************************************************************************)
C8_QueueFIFO ==
    /\ [](/\ InOrderOf(deq_log, enq_log)
          /\ InOrderOf(contact_queue, enq_log)
          /\ \A i \in 1..Len(deq_log), j \in 1..Len(contact_queue) :
                Pos(enq_log, deq_log[i]) < Pos(enq_log, contact_queue[j]))
    /\ [][\A c \in Contacts :
            (abandon_process[c] = "waiting" /\ abandon_process'[c] = "fired")
               => contact_queue' = SelectSeq(contact_queue, LAMBDA x : x # c)]_vars

\* two contacts waited, the later one abandoned from behind the earlier
\* one, and the earlier one was popped afterwards
C8_Witness ==
    \E c, d \in Contacts :
        /\ Pos(enq_log, c) > 0 /\ Pos(enq_log, d) > Pos(enq_log, c)
        /\ abandon_process[d] = "fired"
        /\ contact[d].arrival_time + contact[d].abandon_timing
              < contact[c].answer_time
        /\ Pos(deq_log, c) > 0

(***************************************************************************)
(* C10.  An agent in 'wrap_up' becomes available again by its wrap-up      *)
(* timer: while the status is 'wrap_up', the timer that sets it to         *)
(* AVAILABLE is pending.                                                   *)
(***************************************************************************)
C10_WrapUpTimerPending ==
    \A a \in Agents :
        agent[a].status = "wrap_up"
            => \/ Pending(evq, "agent_wrap_up_init", a)
               \/ Pending(evq, "agent_wrap_up_timeout", a)

(***************************************************************************)
(* C9.  request_agent() returns the available agent with the smallest      *)
(* last_status_change, the first in agent_list among equals, and returns   *)
(* no agent exactly when no agent is available.  An agent is available     *)
(* when its status is the one a new agent has, or the value 'available'    *)
(* that the status setter stores.                                          *)
(***************************************************************************)
IsAvailable(a) == agent[a].status \in {AgentStatus_AVAILABLE, "available"}

C9_RequestAgentLongestIdle ==
    LET r == request_agent(agent)
        available == {a \in Agents : IsAvailable(a)}
    IN  IF available = {}
        THEN r = NoAgent
        ELSE /\ r \in available
             /\ \A b \in available :
                   \/ agent[r].last_status_change < agent[b].last_status_change
                   \/ /\ agent[r].last_status_change = agent[b].last_status_change
                      /\ r <= b

\* no exception ends a run
NoCrash == ~crashed

(***************************************************************************)
(* C11.  An agent's status changes only along the cycle AVAILABLE -> BUSY  *)
(* -> WRAP_UP -> AVAILABLE: it becomes 'busy' only from available,         *)
(* 'wrap_up' only from 'busy', available only from 'wrap_up'.              *)
(***************************************************************************)
AvailableStatuses == {AgentStatus_AVAILABLE, "available"}

C11_AgentCycle ==
    [][\A a \in Agents :
          agent'[a].status # agent[a].status
              => \/ /\ agent[a].status \in AvailableStatuses
                    /\ agent'[a].status = "busy"
                 \/ /\ agent[a].status = "busy"
                    /\ agent'[a].status = "wrap_up"
                 \/ /\ agent[a].status = "wrap_up"
                    /\ agent'[a].status \in AvailableStatuses]_vars

(***************************************************************************)
(* C12.  agent.status = value: a value of the enumeration is stored and    *)
(* last_status_change is set to the current time; any other value raises   *)
(* ValueError and leaves status and last_status_change as they were.       *)
(* last_status_change changes in no other step.                            *)
(***************************************************************************)
C12_StatusAssignment ==
    [][/\ (called' # called /\ called'.op = "agent.status")
            => LET a == called'.id
                   value == called'.value
               IN  IF value \in AgentStatusValues
                   THEN /\ ~called'.error
                        /\ agent'[a].status = value
                        /\ agent'[a].last_status_change = now'
                   ELSE /\ called'.error
                        /\ agent'[a] = agent[a]
       /\ \A a \in Agents :
             agent'[a] # agent[a]
                 => /\ called'.op = "agent.status"
                    /\ called'.id = a
                    /\ ~called'.error
                    /\ called'.time = now']_vars

\* an assignment was accepted, and a later one was rejected
C12_Witness ==
    /\ called.op = "agent.status"
    /\ called.error
    /\ agent[called.id].status = "busy"
    /\ 0 < agent[called.id].last_status_change
    /\ agent[called.id].last_status_change < called.time

(***************************************************************************)
(* C13.  Assigning a Contact's status, contact_type or (with a contact     *)
(* center attached) skill a value outside its enumeration raises           *)
(* ValueError at the assignment and leaves the contact as it was; the      *)
(* status of a contact is always a value of ContactStatus.                 *)
(***************************************************************************)
C13_ContactSettersReject ==
    /\ [][called' # called
            => LET c == called'.id
                   value == called'.value
                   outside ==
                       \/ /\ called'.op = "contact.status"
                          /\ value \notin ContactStatusValues
                       \/ /\ called'.op = "contact.contact_type"
                          /\ value \notin ContactTypes
                       \/ /\ called'.op = "contact.skill"
                          /\ has_cc
                          /\ value \notin (Skills \cup {"None"})
               IN  outside => called'.error /\ contact'[c] = contact[c]]_vars
    /\ [](\A c \in Contacts :
            contact[c].status # "unborn"
                => contact[c].status \in ContactStatusValues)

\* a status outside the enumeration was rejected on a contact whose status,
\* type and validated skill had been assigned before
C13_Witness ==
    /\ called.op = "contact.status"
    /\ called.value \notin ContactStatusValues
    /\ called.error
    /\ has_cc
    /\ contact[called.id].status = "ringing"
    /\ contact[called.id].contact_type = "email"
    /\ contact[called.id].skill = "international"

(***************************************************************************)
(* C14.  When a handle() ends with k >= 1 contacts queued, the head of the *)
(* queue and no other contact is removed and started on the agent that     *)
(* was freed; the other k-1 stay queued in their order and are not         *)
(* started.  With an empty queue nothing is started.                       *)
(***************************************************************************)
C14_DequeueHeadOnly ==
    [][\A c \in Contacts :
          (hframe[c].pc = "wrap_up" /\ hframe'[c].pc = "done")
              => LET started ==
                         {d \in Contacts :
                             \/ hframe'[d] # hframe[d] /\ d # c
                             \/ /\ Pending(evq', "handle_init", d)
                                /\ ~Pending(evq, "handle_init", d)}
                 IN  IF Len(contact_queue) >= 1
                     THEN /\ contact_queue' = Tail(contact_queue)
                          /\ started = {Head(contact_queue)}
                          /\ hframe'[Head(contact_queue)] =
                                StartFrame(contact[c].handled_by)
                          /\ Pending(evq', "handle_init", Head(contact_queue))
                     ELSE /\ contact_queue' = <<>>
                          /\ started = {}]_vars

\* a handle() ended with two contacts queued: one was popped and started,
\* the other, which was queued before the pop, is still queued and not
\* started
C14_Witness ==
    \E c, d \in Contacts :
        /\ Pos(deq_log, c) > 0
        /\ hframe[c].pc # "none"
        /\ InQueue(d)
        /\ hframe[d].pc = "none"
        /\ Pos(enq_log, c) < Pos(enq_log, d)
        /\ Answered(c)
        /\ contact[d].arrival_time < contact[c].answer_time

(***************************************************************************)
(* C15.  answer(agent) at time t sets, in one step, answer_time to t,      *)
(* wait_time to t - arrival_time, handled_by to the agent, the contact's   *)
(* status to 'in_progress' and the agent's status to 'busy'.               *)
(***************************************************************************)
C15_AnswerSetsFields ==
    [][\A c \in Contacts :
          (~Answered(c) /\ contact'[c].answer_time # None)
              => LET a == hframe[c].agent
                 IN  /\ contact'[c].answer_time = now'
                     /\ contact'[c].wait_time = now' - contact[c].arrival_time
                     /\ contact'[c].handled_by = a
                     /\ contact'[c].status = "in_progress"
                     /\ agent'[a].status = "busy"
                     /\ agent'[a].last_status_change = now']_vars

\* a contact that waited in the queue has just been answered
C15_Witness ==
    \E c \in Contacts :
        /\ Answered(c)
        /\ contact[c].wait_time > 0
        /\ contact[c].answer_time = now
        /\ contact[c].status = "in_progress"
        /\ contact[c].handled_by \in Agents
        /\ agent[contact[c].handled_by].status = "busy"

(***************************************************************************)
(* C16.  A contact is added to the contact center's statistics once, when  *)
(* it abandons or when it ends, never at both and never twice; a contact   *)
(* that ended is added once to the statistics of the agent that handled    *)
(* it; an abandoned contact is added to no agent's statistics.             *)
(***************************************************************************)
Folds(acc, c) ==
    Cardinality({i \in 1..Len(stat_log) : stat_log[i] = <<acc, c>>})
FoldsInto(acc) ==
    Cardinality({i \in 1..Len(stat_log) : stat_log[i][1] = acc})
HasAbandoned(c) == abandon_process[c] = "fired"
HasEnded(c) == hframe[c].pc = "done"

Occurrences(q, c) == Cardinality({i \in 1..Len(q) : q[i] = c})

C17_QueuedOnceRemovedOnce ==
    \A c \in Contacts :
        /\ Occurrences(enq_log, c) <= 1
        /\ Occurrences(contact_queue, c) <= 1
        /\ Occurrences(deq_log, c) <= 1
        /\ Occurrences(contact_queue, c) + Occurrences(deq_log, c)
              + (IF HasAbandoned(c) THEN 1 ELSE 0)
              = Occurrences(enq_log, c)
        /\ contact[c].status \in TerminalStatuses => ~InQueue(c)

\* of two contacts that waited, one was popped and the other abandoned
C17_Witness ==
    \E c, d \in Contacts :
        /\ Occurrences(enq_log, c) = 1 /\ Occurrences(deq_log, c) = 1
        /\ Occurrences(enq_log, d) = 1 /\ HasAbandoned(d)
        /\ contact[c].status = "completed"
        /\ contact_queue = <<>>

(***************************************************************************)
(* C18.  With no agent available during the whole run, every contact is    *)
(* queued at its arrival; once its abandon timer has fired it is           *)
(* 'abandoned' and out of the queue, and when the last timer has fired the *)
(* queue is empty and every contact is 'abandoned', whichever of its       *)
(* abandon timer and its menu timer came first.                            *)
(***************************************************************************)
C18_AllAbandonedNoAgent ==
    /\ \A c \in Contacts :
          Born(c) => Occurrences(enq_log, c) = 1
    /\ \A c \in Contacts :
          HasAbandoned(c)
              => contact[c].status = "abandoned" /\ ~InQueue(c)
    /\ RunOver
          => /\ contact_queue = <<>>
             /\ \A c \in Contacts :
                   Born(c) => contact[c].status = "abandoned"

(***************************************************************************)
(* C19.  One agent, one contact that takes no hold: the contact is         *)
(* 'completed' call_duration + avg_wrap_up_time after its answer, with     *)
(* hold_count 0, and the agent, having been AVAILABLE, BUSY and WRAP_UP,   *)
(* is AVAILABLE again when the run is over.                                *)
(***************************************************************************)
C19_OneContactNoHold ==
    \A c \in Contacts :
        (RunOver /\ HasEnded(c) /\ hold_qualified[c] = "no")
            => /\ contact[c].status = "completed"
               /\ contact[c].hold_count = 0
               \* end() ran at the time wrap_up() set 'completed'
               /\ contact[c].duration - hframe[c].wrap_up_duration
                     + contact[c].arrival_time
                     = contact[c].answer_time + hframe[c].call_duration
                          + avg_wrap_up_time
               /\ agent[contact[c].handled_by].status \in AvailableStatuses

TimerIsOver(c) == abandon_process[c] \in {"fired", "interrupted"}

C21_InterruptOfEndedTimer ==
    [][\A c \in Contacts :
          \* the step that starts handle() on a contact whose timer is over
          /\ ~crashed
          /\ evq # <<>>
          /\ Head(evq).kind = "handle_init"
          /\ Head(evq).c = c
          /\ TimerIsOver(c)
          /\ evq' # evq
          => /\ ~crashed'
             /\ abandon_process' = abandon_process
             /\ contact_queue' = contact_queue
             /\ contact_statistics' = contact_statistics
             /\ Answered(c)']_vars

(***************************************************************************)
(* C22.  The interruption of a pending abandonment timer ends the timer    *)
(* process silently: abandon() never runs for that contact afterwards, and *)
(* neither the delivery of the interruption nor the timer's left-over      *)
(* timeout changes a status, the queue or a statistics counter.            *)
(***************************************************************************)
C22_InterruptedTimerIsSilent ==
    [][\A c \in Contacts :
          /\ abandon_process[c] = "interrupted"
                => abandon_process'[c] = "interrupted"
          \* the delivery of the interruption
          /\ (abandon_process[c] = "waiting"
                 /\ abandon_process'[c] = "interrupted")
                => /\ contact' = contact
                   /\ contact_queue' = contact_queue
                   /\ contact_statistics' = contact_statistics
                   /\ agent_statistics' = agent_statistics
                   /\ ~crashed'
          \* the left-over timeout of the interrupted timer
          /\ (/\ ~crashed
              /\ evq # <<>>
              /\ Head(evq).kind = "abandon_timeout"
              /\ Head(evq).c = c
              /\ abandon_process[c] = "interrupted"
              /\ evq' # evq)
                => /\ contact' = contact
                   /\ contact_queue' = contact_queue
                   /\ contact_statistics' = contact_statistics
                   /\ agent_statistics' = agent_statistics
                   /\ ~crashed']_vars

\* a timer was interrupted, its deadline has passed and its left-over
\* timeout has been dispatched: the contact did not abandon
C22_Witness ==
    \E c \in Contacts :
        /\ abandon_process[c] = "interrupted"
        /\ Pos(deq_log, c) > 0
        /\ ~Pending(evq, "abandon_timeout", c)
        /\ now >= contact[c].arrival_time + contact[c].abandon_timing
        /\ contact[c].status # "abandoned"
        /\ Folds(CenterStatistics, c) = 0

(***************************************************************************)
(* C23.  While a contact waits in wrap_up(), from the assignment of        *)
(* 'wrap_up' to its agent until avg_wrap_up_time later, the agent's status *)
(* is 'wrap_up', handled_by is that agent and the contact is not           *)
(* 'completed'; it becomes 'completed' at the end of that wait and in no   *)
(* other step.                                                             *)
(***************************************************************************)
InWrapUp(c) == hframe[c].pc = "wrap_up" /\ Pending(evq, "wrap_up_timeout", c)

C23_WrapUpFrame ==
    /\ [](\A c \in Contacts :
            InWrapUp(c)
                => /\ contact[c].handled_by = hframe[c].agent
                   /\ agent[contact[c].handled_by].status = "wrap_up"
                   /\ contact[c].status # "completed"
                   /\ now <= agent[contact[c].handled_by].last_status_change
                                + avg_wrap_up_time)
    /\ [][\A c \in Contacts :
            (contact[c].status # "completed"
                /\ contact'[c].status = "completed")
                => /\ InWrapUp(c)
                   /\ Head(evq).kind = "wrap_up_timeout"
                   /\ Head(evq).c = c
                   /\ now' = agent[contact[c].handled_by].last_status_change
                                + avg_wrap_up_time
                   /\ agent'[contact[c].handled_by].status = "wrap_up"]_vars

\* a contact is in the middle of its wrap-up wait: time has passed since the
\* wait began and its status has been changed meanwhile by arrival()
C23_Witness ==
    \E c \in Contacts :
        /\ InWrapUp(c)
        /\ now > agent[contact[c].handled_by].last_status_change
        /\ contact[c].status = "queued"

(***************************************************************************)
(* C24.  A new Agent has a status equal to 'available' and                 *)
(* last_status_change equal to its creation time.  A new Contact has       *)
(* status 'arrival', arrival_time equal to its creation time, no           *)
(* handled_by, wait_time, hold_count and hold_duration 0, and one pending  *)
(* abandonment timer.                                                      *)
(***************************************************************************)
\* no status was assigned to the agent since Agent.__init__ (time 0)
IsNewAgent(a) == \A c \in Contacts : contact[c].handled_by # a
\* Contact.__init__ has run and none of the contact's processes has started
IsNewContact(c) == Born(c) /\ abandon_process[c] = "init"

C24_InitialStates ==
    /\ \A a \in Agents :
          IsNewAgent(a)
              => /\ agent[a].status = "available"
                 /\ agent[a].last_status_change = 0
    /\ \A c \in Contacts :
          IsNewContact(c)
              => /\ contact[c].status = "arrival"
                 /\ contact[c].arrival_time = now
                 /\ contact[c].handled_by = NoAgent
                 /\ contact[c].wait_time = 0
                 /\ contact[c].hold_count = 0
                 /\ contact[c].hold_duration = 0
                 /\ Cardinality({i \in 1..Len(evq) :
                        /\ evq[i].c = c
                        /\ evq[i].kind \in {"abandon_init", "abandon_timeout"}})
                      = 1

(***************************************************************************)
(* C25.  The clock never decreases and moves only to the time of the event *)
(* that is dispatched; events of equal time are dispatched in the order    *)
(* they were scheduled, also a process start or an interrupt scheduled at  *)
(* the current time behind a timer that is already pending.                *)
(***************************************************************************)
\* the events that were in the queue before the step and are still in it
IsOld(e) == \E k \in 2..Len(evq) : evq[k] = e

ClockFollowsDispatch ==
    /\ now' >= now
    /\ now' # now => evq # <<>> /\ now' = Head(evq).time
    /\ evq' # evq => evq # <<>> /\ now' = Head(evq).time

C26_RoutingOnArrival ==
    /\ [][contact_count' = contact_count + 1
            => LET c == contact_count'
                   available ==
                       {a \in Agents : agent[a].status \in AvailableStatuses}
               IN  /\ requested' # NoAgent
                        => /\ requested' \in available
                           /\ hframe'[c] = StartFrame(requested')
                           /\ Pending(evq', "handle_init", c)
                           /\ contact_queue' = contact_queue
                           /\ enq_log' = enq_log
                   /\ available = {}
                        => /\ requested' = NoAgent
                           /\ contact_queue' = Append(contact_queue, c)
                           /\ hframe'[c] = NoFrame
                           /\ ~Pending(evq', "handle_init", c)]_vars
    /\ [](\A c \in Contacts :
            /\ (Born(c) /\ Occurrences(enq_log, c) = 0)
                  => /\ ~InQueue(c)
                     /\ \/ Pending(evq, "handle_init", c)
                              /\ now = contact[c].arrival_time
                        \/ Answered(c)
                              /\ contact[c].answer_time = contact[c].arrival_time
                              /\ contact[c].handled_by = hframe[c].agent
            /\ (Occurrences(enq_log, c) = 1
                   /\ ~HasAbandoned(c) /\ Occurrences(deq_log, c) = 0)
                  => InQueue(c) /\ hframe[c] = NoFrame /\ ~Answered(c))

\* one contact was routed at its arrival, and a later one, finding no agent
\* available, is waiting behind another queued contact
C26_Witness ==
    \E c, d, e \in Contacts :
        /\ Born(c) /\ Occurrences(enq_log, c) = 0 /\ Answered(c)
        /\ InQueue(d) /\ InQueue(e)
        /\ Pos(contact_queue, d) < Pos(contact_queue, e)
        /\ contact[e].arrival_time = now

(***************************************************************************)
(* C27.  The status of a contact only moves forward: arrival -> queued,    *)
(* queued -> abandoned, queued -> in_progress, in_progress -> completed.   *)
(* The end of the menu suspension sets 'queued' only from 'arrival', a     *)
(* contact is answered only from 'queued', and an 'in_progress' contact    *)
(* never returns to 'queued' or 'arrival'.                                 *)
(***************************************************************************)
C27_StatusForward ==
    [][\A c \in Contacts :
          contact'[c].status # contact[c].status
              => \/ contact[c].status = "unborn"
                       /\ contact'[c].status = "arrival"
                 \/ contact[c].status = "arrival"
                       /\ contact'[c].status = "queued"
                 \/ contact[c].status = "queued"
                       /\ contact'[c].status \in {"abandoned", "in_progress"}
                 \/ contact[c].status = "in_progress"
                       /\ contact'[c].status = "completed"]_vars

(***************************************************************************)
(* C28.  handle() takes a hold iff the contact is a call, the draw         *)
(* succeeded and call_duration > 2 * hold_duration.  With a hold it waits  *)
(* hold_timing, then hold_duration, then call_duration - hold_duration;    *)
(* without one it waits call_duration once.  Wrap-up therefore starts      *)
(* call_duration after the answer, or hold_timing + call_duration.         *)
(***************************************************************************)
ScheduledAt(q, kind, c, t) ==
    \E i \in 1..Len(q) : q[i].kind = kind /\ q[i].c = c /\ q[i].time = t

HandleWaits == {"hold_timing_timeout", "hold_timeout", "remainder_timeout",
                "call_timeout"}

C28_HoldPlan ==
    /\ [][\A c \in Contacts :
            LET f == hframe'[c]
            IN  /\ (hframe[c].pc = "init" /\ f.pc # "init")
                     => /\ f.pc \in {"hold_timing", "call"}
                        /\ f.pc = "hold_timing" <=> hold_qualified'[c] = "yes"
                        /\ f.pc = "hold_timing"
                             => /\ contact'[c].contact_type = "call"
                                /\ f.call_duration > 2 * f.hold_duration
                                /\ \E ht \in HoldTimings(f.call_duration) :
                                      ScheduledAt(evq', "hold_timing_timeout",
                                                  c, now' + ht)
                        /\ f.pc = "call"
                             => ScheduledAt(evq', "call_timeout", c,
                                            now' + f.call_duration)
                /\ (hframe[c].pc = "hold_timing" /\ f.pc # "hold_timing")
                     => f.pc = "hold" /\ Pending(evq', "hold_init", c)
                /\ (Pending(evq, "hold_init", c) /\ ~Pending(evq', "hold_init", c))
                     => ScheduledAt(evq', "hold_timeout", c,
                                    now' + f.hold_duration)
                /\ (hframe[c].pc = "hold" /\ f.pc # "hold")
                     => /\ f.pc = "remainder"
                        /\ ScheduledAt(evq', "remainder_timeout", c,
                               now' + f.call_duration - f.hold_duration)
                /\ (hframe[c].pc # "wrap_up" /\ f.pc = "wrap_up")
                     => IF hold_qualified[c] = "yes"
                        THEN /\ hframe[c].pc = "remainder"
                             /\ \E ht \in HoldTimings(f.call_duration) :
                                   now' = contact[c].answer_time + ht
                                            + f.hold_duration
                                            + (f.call_duration - f.hold_duration)
                        ELSE /\ hframe[c].pc = "call"
                             /\ now' = contact[c].answer_time + f.call_duration]_vars
    /\ [](\A c \in Contacts :
            Cardinality({i \in 1..Len(evq) :
                           evq[i].c = c /\ evq[i].kind \in HandleWaits}) <= 1)

\* a call that took a hold has reached its wrap-up, and the call handled
\* after it is waiting its call_duration without a hold
C28_Witness ==
    \E c, d \in Contacts :
        /\ hold_qualified[c] = "yes" /\ hframe[c].pc = "done"
        /\ hold_qualified[d] = "no" /\ hframe[d].pc = "call"
        /\ contact[d].contact_type = "call"
        /\ Pending(evq, "call_timeout", d)

(***************************************************************************)
(* C29.  One wrap-up timing: when handle() ends a contact, the wrap-up     *)
(* amount counted in its duration is the delay the contact waited in       *)
(* wrap_up(), so that duration is the time elapsed from arrival_time to    *)
(* the end of the wrap-up.                                                 *)
(***************************************************************************)
C29_OneWrapUpTiming ==
    [][\A c \in Contacts :
          (hframe[c].pc = "wrap_up" /\ hframe'[c].pc = "done")
              => /\ hframe[c].wrap_up_duration = avg_wrap_up_time
                 /\ contact'[c].duration = now' - contact[c].arrival_time]_vars

(***************************************************************************)
(* C30.  The abandonment deadline is arrival_time + abandon_timing, fixed  *)
(* when the contact is created: the only abandon timer of a contact is     *)
(* due then; a contact not answered by then is abandoned at exactly that   *)
(* time; a contact answered before it is never abandoned.                  *)
(***************************************************************************)
Deadline(c) == contact[c].arrival_time + contact[c].abandon_timing

C30_FixedDeadline ==
    /\ [][\A c \in Contacts :
            \/ contact'[c].status = "abandoned" /\ contact[c].status # "abandoned"
            \/ HasAbandoned(c)' /\ ~HasAbandoned(c)
            => /\ now' = Deadline(c)
               /\ ~Answered(c)
               /\ contact'[c].status = "abandoned"
               /\ HasAbandoned(c)']_vars
    /\ [](\A c \in Contacts :
            Born(c)
              => /\ (~Answered(c) /\ now > Deadline(c)) => HasAbandoned(c)
                 /\ (Answered(c) /\ contact[c].answer_time < Deadline(c))
                       => ~HasAbandoned(c) /\ contact[c].status # "abandoned"
                 /\ \A i \in 1..Len(evq) :
                       (evq[i].kind = "abandon_timeout" /\ evq[i].c = c)
                           => evq[i].time = Deadline(c)
                 /\ Cardinality({i \in 1..Len(evq) :
                        evq[i].kind = "abandon_timeout" /\ evq[i].c = c}) <= 1)

\* a contact queued after its menu selection was abandoned at its deadline,
\* later than the time it was queued, while another contact, answered
\* before its own deadline, is past that deadline and not abandoned
C30_Witness ==
    \E c, d \in Contacts :
        /\ HasAbandoned(c) /\ contact[c].abandon_timing > 0
        /\ contact[c].skill = "sales"
        /\ Answered(d) /\ contact[d].answer_time < Deadline(d)
        /\ now > Deadline(d)

(***************************************************************************)
(* C31.  An agent handles at most one contact at a time: no two contacts   *)
(* whose handle() is between answer() and the end of its wrap-up have the  *)
(* same agent.                                                             *)
(***************************************************************************)
HandlePcs == {"hold_timing", "hold", "remainder", "call", "wrap_up"}

Handling(c) == Answered(c) /\ hframe[c].pc \in HandlePcs

C31_OneContactPerAgent ==
    \A c, d \in Contacts :
        (c # d /\ Handling(c) /\ Handling(d))
            => contact[c].handled_by # contact[d].handled_by

\* an agent that received its first contact from request_agent() is
\* handling a contact it took from the queue, while a third one arrives
C31_Witness ==
    \E c, d, e \in Contacts :
        /\ HasEnded(c) /\ Occurrences(enq_log, c) = 0
        /\ Handling(d) /\ Occurrences(deq_log, d) = 1
        /\ contact[d].handled_by = contact[c].handled_by
        /\ contact[e].arrival_time = now /\ Born(e) /\ e # d

(***************************************************************************)
(* C32.  The statistics of the contact center: count = handled +           *)
(* abandoned, handled is the number of contacts folded in as 'completed',  *)
(* abandoned the number folded in as 'abandoned', and the accumulated      *)
(* duration and wait_time are those of the completed contacts only.        *)
(***************************************************************************)
RECURSIVE SumOf(_, _)
SumOf(S, field) ==
    IF S = {} THEN 0
    ELSE LET c == CHOOSE x \in S : TRUE
         IN  contact[c][field] + SumOf(S \ {c}, field)

EndedContacts == {c \in Contacts : HasEnded(c)}
AbandonedContacts == {c \in Contacts : HasAbandoned(c)}

C33_QueuedIsWaiting ==
    \A c \in Contacts :
        InQueue(c)
            => /\ abandon_process[c] \in {"init", "waiting"}
               /\ abandon_process[c] = "waiting"
                     => Pending(evq, "abandon_timeout", c)
               /\ abandon_process[c] = "init"
                     => Pending(evq, "abandon_init", c)
               /\ contact[c].handled_by = NoAgent
               /\ ~Answered(c)
               /\ hframe[c] = NoFrame

\* two contacts wait in the queue with their timers running while the
\* agent handles a third
C33_Witness ==
    \E c, d, e \in Contacts :
        /\ InQueue(c) /\ InQueue(d) /\ c # d
        /\ abandon_process[c] = "waiting" /\ abandon_process[d] = "waiting"
        /\ contact[c].status = "queued"
        /\ Handling(e)

(***************************************************************************)
(* C34.  Work conservation: whenever the contact queue is not empty, some  *)
(* agent is handling a contact (a handle() is running, or has been started *)
(* for it), so that the end of that handle() will pop the head.            *)
(***************************************************************************)
Serving(a) ==
    \E c \in Contacts :
        hframe[c].agent = a /\ hframe[c].pc \in HandlePcs \cup {"init"}

C34_WorkConserving ==
    contact_queue # <<>> => \E a \in Agents : Serving(a)

(***************************************************************************)
(* C35.  No queue jumping: an arriving contact is handed to an agent by    *)
(* request_agent() only when the contact queue is empty; whenever an agent *)
(* is available at an arrival, the queue is empty.                         *)
(***************************************************************************)
C35_NoQueueJumping ==
    [][contact_count' = contact_count + 1
          => /\ requested' # NoAgent => contact_queue = <<>>
             /\ (\E a \in Agents : agent[a].status \in AvailableStatuses)
                   => contact_queue = <<>>]_vars

\* the first contact was routed at its arrival; a contact arrives while
\* an older one waits in the queue and the agent is in wrap-up, and is
\* queued behind it
C35_Witness ==
    \E c, d, e \in Contacts :
        /\ Occurrences(enq_log, c) = 0 /\ Answered(c)
        /\ contact_queue = <<d, e>>
        /\ contact[e].arrival_time = now /\ abandon_process[e] = "init"
        /\ requested = NoAgent
        /\ \A a \in Agents : agent[a].status = "wrap_up"

(***************************************************************************)
(* C36.  From answer() to the start of wrap-up a contact without a hold    *)
(* takes call_duration, and a contact with a hold takes hold_timing +      *)
(* call_duration: the hold comes on top of call_duration by hold_timing.   *)
(***************************************************************************)
WrapUpStarts(c) == hframe[c].pc # "wrap_up" /\ hframe'[c].pc = "wrap_up"

C36_HandlingTime ==
    [][\A c \in Contacts :
          WrapUpStarts(c)
              => LET f == hframe[c]
                     elapsed == now' - contact[c].answer_time
                 IN  /\ contact[c].hold_count = 0 => elapsed = f.call_duration
                     /\ contact[c].hold_count > 0
                           => /\ elapsed = f.hold_timing + f.call_duration
                              /\ elapsed = f.hold_timing + f.hold_duration
                                    + (f.call_duration - f.hold_duration)
                              /\ elapsed > f.call_duration]_vars

\* a call with a hold has started its wrap-up, 60 + 120 after its answer
C36_Witness ==
    \E c \in Contacts :
        /\ hframe[c].pc = "wrap_up"
        /\ contact[c].hold_count > 0
        /\ hframe[c].hold_timing > 0
        /\ now = contact[c].answer_time + hframe[c].hold_timing
                    + hframe[c].call_duration

(***************************************************************************)
(* C37.  No delay asked of the clock by a contact is negative:             *)
(* abandon_timing >= 0, call_duration >= 0, and when a hold is taken       *)
(* hold_timing >= 5, hold_duration > 0 and call_duration - hold_duration   *)
(* > 0; no timer of a contact is due before the current time.              *)
(***************************************************************************)
ContactTimers == {"abandon_timeout", "menu_timeout", "call_timeout",
                  "hold_timing_timeout", "hold_timeout", "remainder_timeout",
                  "wrap_up_timeout"}

C37_NoNegativeDelay ==
    /\ \A g \in HandleTimeDraws : call_duration_of(g) >= 0
    /\ \A c \in Contacts :
          /\ contact[c].abandon_timing >= 0
          /\ hframe[c].pc \notin {"none", "init"}
                => /\ hframe[c].call_duration >= 0
                   /\ hold_qualified[c] = "yes"
                         => /\ hframe[c].hold_timing >= 5
                            /\ hframe[c].hold_duration > 0
                            /\ hframe[c].call_duration
                                  - hframe[c].hold_duration > 0
    /\ \A i \in 1..Len(evq) :
          evq[i].kind \in ContactTimers => evq[i].time >= now

\* a call whose duration was drawn as 0 has ended, and a call with a hold
\* is waiting for the remainder of its call_duration
C37_Witness ==
    \E c, d \in Contacts :
        /\ HasEnded(c) /\ hframe[c].call_duration = 0
        /\ hframe[d].pc = "remainder"
        /\ \E i \in 1..Len(evq) :
              /\ evq[i].kind = "remainder_timeout" /\ evq[i].c = d
              /\ evq[i].time > now

====
